---- MODULE Spec2Model ----
(***************************************************************************)
(* Model of the EMG field-canvassing web application: the Home page        *)
(* component (view state, data loader, street sheet), the ControlPanel     *)
(* (which buttons are enabled) and the MapComponent (the Leaflet layers    *)
(* its effects keep on the map).                                           *)
(*                                                                         *)
(* Every user-event action below models the handler together with the      *)
(* re-render React performs for the state it set and the MapComponent      *)
(* effects whose dependencies changed in that re-render.  The tab of the    *)
(* control panel that is open is not part of the state: every control is   *)
(* taken to be one tab switch away.                                        *)
(***************************************************************************)
EXTENDS Integers, Sequences, FiniteSets

(* ---------------- bounds of the model ---------------- *)

\* longest feature list a loaded blue_zones.geojson holds
MaxZones == 1
\* door knocks logged in one behaviour
MaxDoors == 1
\* times the route layer is switched on in one behaviour
MaxRouteDraws == 1
\* location requests issued in one behaviour
MaxLocate == 1

(* ---------------- data ---------------- *)

\* Target records (id, score) with distinct identifiers and scores
DistinctTargets ==
    { [id |-> 1, score |-> 90], [id |-> 2, score |-> 40],
      [id |-> 3, score |-> 70] }

\* a target array in which two records share an identifier and two tie on
\* the score
RepeatingArray ==
    << [id |-> 1, score |-> 70], [id |-> 1, score |-> 90],
       [id |-> 2, score |-> 70] >>

TargetPool ==
    DistinctTargets \cup { RepeatingArray[i] : i \in DOMAIN RepeatingArray }

NoTarget == [id |-> 0, score |-> 0]

\* the arrays a target document can hold: the distinct targets, any number
\* of them in any order, and the repeating array
TargetArrays ==
    { s \in UNION { [1..n -> DistinctTargets] :
                      n \in 0..Cardinality(DistinctTargets) } :
        \A i, j \in DOMAIN s : i # j => s[i] # s[j] }
    \cup { RepeatingArray }

\* the feature lists a zone document can hold (zones named 1..n)
ZoneArrays == { [i \in 1..n |-> i] : n \in 0..MaxZones }

Results == {"deal", "callback", "ni", "nh"}

\* userLocation before any fix: null
NoLocation == "null"

\* the positions a fix can report
Positions == {"here", "there"}

\* the errors getCurrentPosition reports to its error callback
GeoErrors == {"denied", "unavailable", "timeout"}

VARIABLES
    zones,          \* Home: zones state
    targets,        \* Home: targets state
    loading,        \* Home: loading state
    showLMI,        \* Home: showLMI state
    showTargets,    \* Home: showTargets state
    showRoute,      \* Home: showRoute state
    routeTargets,   \* Home: routeTargets state
    stats,          \* Home: stats state
    zoneReq,        \* what the zone request delivered to Promise.all, or "pending"
    targetReq,      \* what the target request delivered to Promise.all, or "pending"
    loadPc,         \* the Promise.all callback: "waiting", "done" or "threw"
    zoneLayerRef,   \* MapComponent: zoneLayerRef.current is set
    mapZoneLayers,  \* number of zone layers on the map
    markers,        \* the targets that have a marker in markerLayerRef
    handlerRoute,   \* routeTargets as captured by the markers' onTargetClick
    routeLayerRef,  \* MapComponent: routeLayerRef.current is set
    mapLines,       \* the route polylines on the map
    mapBadges,      \* the sets of order badges on the map
    view,           \* what the map view was last set to
    userLocation,   \* MapComponent: userLocation state
    locMarkers,     \* number of "You are here" markers on the map
    alerts,         \* number of alert() notices shown
    geoPending,     \* getCurrentPosition calls that have not called back
    last            \* the operation that produced this state

homeVars == <<zones, targets, loading, showLMI, showTargets, showRoute,
              routeTargets, stats>>
loadVars == <<zoneReq, targetReq, loadPc>>
mapVars == <<zoneLayerRef, mapZoneLayers, markers, handlerRoute,
             routeLayerRef, mapLines, mapBadges, view>>
geoVars == <<userLocation, locMarkers, alerts, geoPending>>
vars == <<homeVars, loadVars, mapVars, geoVars, last>>

Op(name, t, a, r) ==
    [op |-> name, target |-> t, arg |-> a, rep |-> r, first |-> NoTarget]

(* ---------------- MapComponent: the route sort ---------------- *)

\* the comparator with its operands swapped: ascending scores
compareScore_Ascending(a, b) == a.score - b.score

\* the comparator of the route sort: (a, b) => b.score - a.score
compareScore(a, b) == b.score - a.score

\* Array.prototype.sort is stable: x, which came later in the array, goes
\* behind every placed element the comparator does not order after it
RECURSIVE InsertSorted(_, _)
InsertSorted(sorted, x) ==
    IF sorted = <<>> THEN <<x>>
    ELSE IF compareScore(sorted[Len(sorted)], x) <= 0
         THEN Append(sorted, x)
         ELSE Append(InsertSorted(SubSeq(sorted, 1, Len(sorted) - 1), x),
                     sorted[Len(sorted)])

RECURSIVE SortFrom(_, _)
SortFrom(sorted, rest) ==
    IF rest = <<>> THEN sorted
    ELSE SortFrom(InsertSorted(sorted, Head(rest)), Tail(rest))

\* [...targets].sort((a, b) => b.score - a.score): a sorted copy
sortedByScore(ts) == SortFrom(<<>>, ts)

(* ---------------- Home: pure parts ---------------- *)

\* routeTargets.find(t => t.id === target.id)
InRoute(route, target) == \E i \in DOMAIN route : route[i].id = target.id

\* routeTargets.filter(t => t.id !== target.id)
WithoutId(route, target) ==
    LET keep(x) == x.id # target.id IN SelectSeq(route, keep)

\* a toggle that never looks for the identifier
toggleRouteMembership_AlwaysAppend(route, target) == Append(route, target)

\* a toggle that adds at the front of the route
toggleRouteMembership_Prepend(route, target) ==
    IF InRoute(route, target)
    THEN WithoutId(route, target)
    ELSE <<target>> \o route

\* handleTargetClick: the value it passes to setRouteTargets, computed from
\* the routeTargets its closure captured
toggleRouteMembership(route, target) ==
    IF InRoute(route, target)
    THEN WithoutId(route, target)
    ELSE Append(route, target)

\* a street sheet that sorts what it lists by descending score
StreetSheetSource_Sorted ==
    sortedByScore(IF Len(routeTargets) > 0 THEN routeTargets ELSE targets)

\* the array the street sheet table maps over
StreetSheetSource ==
    IF Len(routeTargets) > 0 THEN routeTargets ELSE targets

\* the rows of the street sheet table: sequence number, target, score
StreetSheet ==
    [i \in 1..Len(StreetSheetSource) |->
        [num |-> i, id |-> StreetSheetSource[i].id,
         score |-> StreetSheetSource[i].score]]

\* ControlPanel: the Print Street Sheet button is enabled
PrintEnabled == ~(Len(routeTargets) = 0)

\* ControlPanel: the Clear button is enabled
ClearEnabled == ~(Len(routeTargets) = 0)

\* an updater that counts every door as a deal
logResult_CountsEveryDeal(prev, result) ==
    [doors |-> prev.doors + 1,
     deals |-> prev.deals + 1,
     callbacks |-> IF result = "callback" THEN prev.callbacks + 1
                   ELSE prev.callbacks]

\* logResult: the updater it passes to setStats
logResult(prev, result) ==
    [doors |-> prev.doors + 1,
     deals |-> IF result = "deal" THEN prev.deals + 1 ELSE prev.deals,
     callbacks |-> IF result = "callback" THEN prev.callbacks + 1
                   ELSE prev.callbacks]

(* ---------------- MapComponent: pure parts ---------------- *)

\* a route condition that is off by one
RouteDrawn_OneSuffices(show, ts) == show /\ Len(ts) > 0

\* the condition under which the route effect draws
RouteDrawn(show, ts) == show /\ Len(ts) > 1

\* the condition under which the zone effect draws
ZoneDrawn(show, zs) == show /\ Len(zs) > 0

\* the condition under which the marker effect adds markers
MarkersDrawn(show, ts) == show /\ Len(ts) > 0

\* mapRef.current.removeLayer(routeLayerRef.current): the polyline the ref
\* holds, the one added last, leaves the map
LinesAfterRemove(lines, ref) ==
    IF ref THEN SubSeq(lines, 1, Len(lines) - 1) ELSE lines

\* the order badges on the map after the route effect ran
BadgesAfterEffect(badges, show, ts) ==
    IF RouteDrawn(show, ts) THEN Append(badges, sortedByScore(ts)) ELSE badges

(* ---------------- MapComponent: effects ---------------- *)

\* a zone effect that adds the new layer without removing the old one
ZoneEffect_NoRemove ==
    /\ zoneLayerRef' = ZoneDrawn(showLMI', zones')
    /\ view' = IF ZoneDrawn(showLMI', zones') THEN "zones" ELSE view
    /\ mapZoneLayers' = mapZoneLayers
                        + (IF ZoneDrawn(showLMI', zones') THEN 1 ELSE 0)

\* useEffect(..., [zones, showLMI]); the bounds of a drawn layer are taken
\* to be valid, so that fitBounds moves the view
ZoneEffect ==
    /\ zoneLayerRef' = ZoneDrawn(showLMI', zones')
    /\ view' = IF ZoneDrawn(showLMI', zones') THEN "zones" ELSE view
    /\ mapZoneLayers' = (mapZoneLayers - (IF zoneLayerRef THEN 1 ELSE 0))
                        + (IF ZoneDrawn(showLMI', zones') THEN 1 ELSE 0)

\* useEffect(..., [targets, showTargets, onTargetClick])
MarkerEffect ==
    /\ markers' = IF MarkersDrawn(showTargets', targets') THEN targets'
                  ELSE <<>>
    /\ handlerRoute' = IF MarkersDrawn(showTargets', targets')
                       THEN routeTargets' ELSE <<>>

\* useEffect(..., [targets, showRoute])
RouteEffect ==
    /\ routeLayerRef' = RouteDrawn(showRoute', targets')
    /\ mapLines' =
         IF RouteDrawn(showRoute', targets')
         THEN Append(LinesAfterRemove(mapLines, routeLayerRef),
                     sortedByScore(targets'))
         ELSE LinesAfterRemove(mapLines, routeLayerRef)
    /\ mapBadges' = BadgesAfterEffect(mapBadges, showRoute', targets')

\* The re-render that follows a handler's state updates: Home renders when
\* a state value changed, which hands MapComponent a new onTargetClick, and
\* each effect runs when one of its dependencies changed.
Render ==
    /\ IF zones' # zones \/ showLMI' # showLMI
       THEN ZoneEffect
       ELSE UNCHANGED <<zoneLayerRef, mapZoneLayers, view>>
    /\ IF homeVars' # homeVars
       THEN MarkerEffect
       ELSE UNCHANGED <<markers, handlerRoute>>
    /\ IF targets' # targets \/ showRoute' # showRoute
       THEN RouteEffect
       ELSE UNCHANGED <<routeLayerRef, mapLines, mapBadges>>

(* ---------------- Home: the data loader ---------------- *)

NoDoc == [type |-> "none", items |-> <<>>]

\* what a parsed zone document can be: the JSON value null, a value without
\* a features member, or an object with a features list
ZoneDocs ==
    { [type |-> "null", items |-> <<>>], [type |-> "nofield", items |-> <<>>] }
    \cup { [type |-> "features", items |-> z] : z \in ZoneArrays }

\* what a parsed target document can be: the JSON value null, a value
\* without a length, or an array
TargetDocs ==
    { [type |-> "null", items |-> <<>>], [type |-> "nofield", items |-> <<>>] }
    \cup { [type |-> "array", items |-> a] : a \in TargetArrays }

\* how fetch(...).then(r => r.json()) can end: fetch rejects, json() rejects,
\* or json() resolves to a parsed document
FetchOutcomes(docs) ==
    { [kind |-> "netfail", doc |-> NoDoc], [kind |-> "badjson", doc |-> NoDoc] }
    \cup { [kind |-> "parsed", doc |-> d] : d \in docs }

Pending == [kind |-> "pending", doc |-> NoDoc]

\* a settled value the Promise.all callback has received
Consumed == [kind |-> "consumed", doc |-> NoDoc]

\* .catch(() => ({ features: [] }))
zoneData ==
    IF zoneReq.kind = "parsed" THEN zoneReq.doc
    ELSE [type |-> "features", items |-> <<>>]

\* .catch(() => [])
targetData ==
    IF targetReq.kind = "parsed" THEN targetReq.doc
    ELSE [type |-> "array", items |-> <<>>]

\* reading a member of null throws a TypeError
Throws(doc) == doc.type = "null"

\* if (zoneData.features) setZones(zoneData.features)
ZonesAfterLoad == IF zoneData.type = "features" THEN zoneData.items ELSE zones

\* if (targetData.length > 0) setTargets(targetData)
TargetsAfterLoad ==
    IF targetData.type = "array" /\ Len(targetData.items) > 0
    THEN targetData.items ELSE targets

(* ---------------- initial state: after mount ---------------- *)

Init ==
    /\ zones = <<>>
    /\ targets = <<>>
    /\ loading = TRUE
    /\ showLMI = TRUE
    /\ showTargets = TRUE
    /\ showRoute = FALSE
    /\ routeTargets = <<>>
    /\ stats = [doors |-> 0, deals |-> 0, callbacks |-> 0]
    /\ zoneReq = Pending
    /\ targetReq = Pending
    /\ loadPc = "waiting"
    /\ zoneLayerRef = FALSE
    /\ mapZoneLayers = 0
    /\ markers = <<>>
    /\ handlerRoute = <<>>
    /\ routeLayerRef = FALSE
    /\ mapLines = <<>>
    /\ mapBadges = <<>>
    /\ view = "virginia"
    /\ userLocation = NoLocation
    /\ locMarkers = 0
    /\ alerts = 0
    /\ geoPending = 0
    /\ last = Op("mount", NoTarget, "", FALSE)

(* ---------------- actions ---------------- *)

\* the zone request settles
SettleZone ==
    /\ zoneReq = Pending
    /\ \E o \in FetchOutcomes(ZoneDocs) : zoneReq' = o
    /\ UNCHANGED geoVars
    /\ last' = Op("settleZone", NoTarget, "", FALSE)
    /\ UNCHANGED <<homeVars, targetReq, loadPc, mapVars>>

\* the target request settles
SettleTarget ==
    /\ targetReq = Pending
    /\ \E o \in FetchOutcomes(TargetDocs) : targetReq' = o
    /\ UNCHANGED geoVars
    /\ last' = Op("settleTarget", NoTarget, "", FALSE)
    /\ UNCHANGED <<homeVars, zoneReq, loadPc, mapVars>>

\* the callback of Promise.all([...]).then
LoadThen ==
    /\ loadPc = "waiting"
    /\ zoneReq # Pending
    /\ targetReq # Pending
    /\ zoneReq' = Consumed
    /\ targetReq' = Consumed
    /\ IF Throws(zoneData)
       THEN /\ loadPc' = "threw"
            /\ UNCHANGED <<zones, targets, loading>>
       ELSE /\ zones' = ZonesAfterLoad
            /\ IF Throws(targetData)
               THEN /\ loadPc' = "threw"
                    /\ UNCHANGED <<targets, loading>>
               ELSE /\ targets' = TargetsAfterLoad
                    /\ loading' = FALSE
                    /\ loadPc' = "done"
    /\ UNCHANGED <<showLMI, showTargets, showRoute, routeTargets, stats>>
    /\ UNCHANGED geoVars
    /\ last' = Op("loadThen", NoTarget, "", FALSE)
    /\ Render

\* a click handler that also switches the route layer on
HandleTargetClick_ShowsRoute(t) ==
    /\ \E i \in DOMAIN markers : markers[i] = t
    /\ routeTargets' = toggleRouteMembership(handlerRoute, t)
    /\ showRoute' = TRUE
    /\ UNCHANGED geoVars
    /\ last' = Op("click", t, "", last.op = "click" /\ last.target = t)
    /\ UNCHANGED <<zones, targets, loading, showLMI, showTargets, stats,
                   loadVars>>
    /\ Render

\* a click on the marker of target t: onTargetClick?.(target)
HandleTargetClick(t) ==
    /\ \E i \in DOMAIN markers : markers[i] = t
    /\ routeTargets' = toggleRouteMembership(handlerRoute, t)
    /\ UNCHANGED geoVars
    /\ last' = Op("click", t, "", last.op = "click" /\ last.target = t)
    /\ UNCHANGED <<zones, targets, loading, showLMI, showTargets, showRoute,
                   stats, loadVars>>
    /\ Render

\* a Clear that empties the route and leaves the route flag alone
HandleClearRoute_KeepsFlag ==
    /\ ClearEnabled
    /\ routeTargets' = <<>>
    /\ UNCHANGED geoVars
    /\ last' = Op("clearRoute", NoTarget,
                  IF showRoute THEN "shown" ELSE "hidden", FALSE)
    /\ UNCHANGED <<zones, targets, loading, showLMI, showTargets, showRoute,
                   stats, loadVars>>
    /\ Render

\* the Clear button of the control panel
HandleClearRoute ==
    /\ ClearEnabled
    /\ routeTargets' = <<>>
    /\ showRoute' = FALSE
    /\ UNCHANGED geoVars
    /\ last' = Op("clearRoute", NoTarget,
                  IF showRoute THEN "shown" ELSE "hidden", FALSE)
    /\ UNCHANGED <<zones, targets, loading, showLMI, showTargets, stats,
                   loadVars>>
    /\ Render

\* the Print Street Sheet button of the control panel: window.print()
HandlePrintStreetSheet ==
    /\ PrintEnabled
    /\ UNCHANGED geoVars
    /\ last' = Op("print", NoTarget, "", FALSE)
    /\ UNCHANGED <<homeVars, loadVars>>
    /\ Render

\* the LMI zones checkbox: setShowLMI(e.target.checked)
SetShowLMI ==
    /\ showLMI' = ~showLMI
    /\ UNCHANGED geoVars
    /\ last' = Op("setShowLMI", NoTarget, "", FALSE)
    /\ UNCHANGED <<zones, targets, loading, showTargets, showRoute,
                   routeTargets, stats, loadVars>>
    /\ Render

\* the target addresses checkbox: setShowTargets(e.target.checked)
SetShowTargets ==
    /\ showTargets' = ~showTargets
    /\ UNCHANGED geoVars
    /\ last' = Op("setShowTargets", NoTarget, "", FALSE)
    /\ UNCHANGED <<zones, targets, loading, showLMI, showRoute,
                   routeTargets, stats, loadVars>>
    /\ Render

\* the walking route checkbox: setShowRoute(e.target.checked)
SetShowRoute ==
    /\ showRoute \/ Len(mapBadges) < MaxRouteDraws
    /\ showRoute' = ~showRoute
    /\ UNCHANGED geoVars
    /\ last' = Op("setShowRoute", NoTarget, "", FALSE)
    /\ UNCHANGED <<zones, targets, loading, showLMI, showTargets,
                   routeTargets, stats, loadVars>>
    /\ Render

\* the floating Start Route button: setShowRoute(true)
StartRoute ==
    /\ Len(routeTargets) > 0
    /\ showRoute \/ Len(mapBadges) < MaxRouteDraws
    /\ showRoute' = TRUE
    /\ UNCHANGED geoVars
    /\ last' = Op("startRoute", NoTarget, "", FALSE)
    /\ UNCHANGED <<zones, targets, loading, showLMI, showTargets,
                   routeTargets, stats, loadVars>>
    /\ Render

\* logResult(targetId, result): setStats(prev => ...)
LogResult(result) ==
    /\ stats.doors < MaxDoors
    /\ stats' = logResult(stats, result)
    /\ UNCHANGED geoVars
    /\ last' = Op("logResult", NoTarget, result, FALSE)
    /\ UNCHANGED <<zones, targets, loading, showLMI, showTargets, showRoute,
                   routeTargets, loadVars>>
    /\ Render


\* Two marker clicks, on t1 and then on t2, that are both handled before
\* React re-renders Home: both run the onTargetClick the markers hold, which
\* computes from the routeTargets of the last render, and of the two values
\* queued by setRouteTargets the second is the state of the next render.
HandleTargetClickPair(t1, t2) ==
    /\ \E i \in DOMAIN markers : markers[i] = t1
    /\ \E i \in DOMAIN markers : markers[i] = t2
    /\ routeTargets' =
         LET queued == << toggleRouteMembership(handlerRoute, t1),
                          toggleRouteMembership(handlerRoute, t2) >>
         IN queued[Len(queued)]
    /\ UNCHANGED geoVars
    /\ last' = [Op("clickPair", t2, "", FALSE) EXCEPT !.first = t1]
    /\ UNCHANGED <<zones, targets, loading, showLMI, showTargets, showRoute,
                   stats, loadVars>>
    /\ Render

(* ---------------- MapComponent: the location control ---------------- *)

\* a click on the locate button of a browser that has navigator.geolocation:
\* getCurrentPosition is called and returns
LocateClick ==
    /\ geoPending + locMarkers + alerts < MaxLocate
    /\ geoPending' = geoPending + 1
    /\ last' = Op("locateClick", NoTarget, "", FALSE)
    /\ UNCHANGED <<homeVars, loadVars, mapVars, userLocation, locMarkers,
                   alerts>>

\* a click on the locate button of a browser without navigator.geolocation:
\* reading getCurrentPosition of undefined throws a TypeError out of the
\* click listener
LocateClickUnsupported ==
    /\ geoPending + locMarkers + alerts < MaxLocate
    /\ last' = Op("locateUnsupported", NoTarget, "", FALSE)
    /\ UNCHANGED <<homeVars, loadVars, mapVars, geoVars>>

\* the success callback of getCurrentPosition
LocateSuccess(pos) ==
    /\ geoPending > 0
    /\ geoPending' = geoPending - 1
    /\ userLocation' = pos
    /\ view' = "user"
    /\ locMarkers' = locMarkers + 1
    /\ last' = Op("locateSuccess", NoTarget, pos, FALSE)
    /\ UNCHANGED <<homeVars, loadVars, zoneLayerRef, mapZoneLayers, markers,
                   handlerRoute, routeLayerRef, mapLines, mapBadges, alerts>>

\* the error callback of getCurrentPosition: alert(...)
LocateError(err) ==
    /\ geoPending > 0
    /\ geoPending' = geoPending - 1
    /\ alerts' = alerts + 1
    /\ last' = Op("locateError", NoTarget, err, FALSE)
    /\ UNCHANGED <<homeVars, loadVars, mapVars, userLocation, locMarkers>>

Next ==
    \/ SettleZone
    \/ SettleTarget
    \/ LoadThen
    \/ \E t \in TargetPool : HandleTargetClick(t)
    \/ HandleClearRoute
    \/ HandlePrintStreetSheet
    \/ SetShowLMI
    \/ SetShowTargets
    \/ SetShowRoute
    \/ StartRoute
    \/ \E r \in Results : LogResult(r)

Spec == Init /\ [][Next]_vars

\* Home with marker clicks that can come in pairs between two renders
NextBatched ==
    \/ Next
    \/ \E t1, t2 \in TargetPool : HandleTargetClickPair(t1, t2)

SpecBatched == Init /\ [][NextBatched]_vars

\* the location control, with the load and the layer checkboxes
NextLocate ==
    \/ SettleZone
    \/ SettleTarget
    \/ LoadThen
    \/ SetShowLMI
    \/ SetShowTargets
    \/ SetShowRoute
    \/ LocateClick
    \/ LocateClickUnsupported
    \/ \E pos \in Positions : LocateSuccess(pos)
    \/ \E err \in GeoErrors : LocateError(err)

SpecLocate == Init /\ [][NextLocate]_vars

(* ---------------- properties ---------------- *)

Front(s) == SubSeq(s, 1, Len(s) - 1)

\* the scores of a sequence of targets or rows do not increase
Descending(s) == \A i, j \in DOMAIN s : i < j => s[i].score >= s[j].score

\* s holds exactly the entries of ts, each once
PermutationOf(s, ts) ==
    /\ Len(s) = Len(ts)
    /\ \A x \in TargetPool :
         Cardinality({i \in DOMAIN s : s[i] = x})
           = Cardinality({i \in DOMAIN ts : ts[i] = x})

\* C1: in every reachable state no two entries of the route list have the
\* same target identifier.
C1_RouteHasNoDuplicateIds ==
    \A i, j \in DOMAIN routeTargets :
        i # j => routeTargets[i].id # routeTargets[j].id

\* C1 witness: a click has built a route of two stops out of a target
\* collection in which two targets share an identifier.
C1_Witness ==
    /\ last.op = "click"
    /\ Len(routeTargets) >= 2
    /\ \E i, j \in DOMAIN targets :
         i # j /\ targets[i].id = targets[j].id

\* C2: a click on a target whose identifier is not in the route appends it
\* at the end, once; a second click on the same target right after removes
\* it again and leaves exactly the route there was before the first click.
C2_ToggleTwiceRestores ==
    [][last'.op = "click" =>
         LET t == last'.target IN
           /\ ~InRoute(routeTargets, t) =>
                routeTargets' = Append(routeTargets, t)
           /\ (last.op = "click" /\ last.target = t
                 /\ InRoute(routeTargets, t)) =>
                routeTargets' = Front(routeTargets)]_vars

\* C2 witness: the second of two clicks on one target has removed it and
\* left a route of two other stops.
C2_Witness ==
    /\ last.op = "click"
    /\ last.rep
    /\ ~InRoute(routeTargets, last.target)
    /\ Len(routeTargets) >= 2

\* C3: after clearRoute the route list is empty and route-visibility is
\* off, whatever they were before.
C3_ClearRouteResets ==
    last.op = "clearRoute" => (routeTargets = <<>> /\ showRoute = FALSE)

\* C3 witness: clearRoute has acted on a state whose route flag was on.
C3_Witness == last.op = "clearRoute" /\ last.arg = "shown"

\* what the claim expects of the zone source: its parsed features, or empty
ExpectedZones ==
    IF zoneReq.kind = "parsed" /\ zoneReq.doc.type = "features"
    THEN zoneReq.doc.items ELSE <<>>

\* what the claim expects of the target source: its parsed array, or empty
ExpectedTargets ==
    IF targetReq.kind = "parsed" /\ targetReq.doc.type = "array"
    THEN targetReq.doc.items ELSE <<>>

\* C4: for every combination of outcomes of the two requests the load
\* callback raises no exception and leaves each source as its parsed
\* contents or as an empty collection, independently of the other source.
C4_LoadNeverThrows ==
    [][last'.op = "loadThen" =>
         /\ loadPc' = "done"
         /\ zones' = ExpectedZones
         /\ targets' = ExpectedTargets]_vars

\* C5: loading is true until the callback of the two settled requests has
\* run, and false ever after.
C5_LoadingClearsOnceSettled ==
    /\ loadPc = "waiting" => loading = TRUE
    /\ loadPc # "waiting" => loading = FALSE

\* C6: the map holds at most one route line and at most one set of order
\* badges, and none of either while route-visibility is off.
C6_NoRouteAccumulation ==
    /\ Len(mapLines) <= 1
    /\ Len(mapBadges) <= 1
    /\ ~showRoute => (mapLines = <<>> /\ mapBadges = <<>>)

\* C7 as stated: the printed street sheet lists its targets by descending
\* score.
C7_PrintedByDescendingScore ==
    last.op = "print" => Descending(StreetSheet)

\* C7 as amended: the printed street sheet of a route lists the route's
\* stops in route-list order, numbered from 1, with no sort by score.
C7_PrintedInRouteOrder ==
    last.op = "print" =>
        /\ Len(StreetSheet) = Len(routeTargets)
        /\ \A i \in DOMAIN StreetSheet :
             /\ StreetSheet[i].num = i
             /\ StreetSheet[i].id = routeTargets[i].id
             /\ StreetSheet[i].score = routeTargets[i].score

\* C7 witness: a sheet has been printed for a route whose click order is
\* not the descending score order.
C7_Witness ==
    /\ last.op = "print"
    /\ Len(routeTargets) >= 2
    /\ ~Descending(routeTargets)

\* C8: the route line and every set of order badges visit all targets in
\* descending score order: badge k is on the target with the k-th highest
\* score.
C8_RouteDrawnByDescendingScore ==
    /\ \A n \in DOMAIN mapLines :
         Descending(mapLines[n]) /\ PermutationOf(mapLines[n], targets)
    /\ \A n \in DOMAIN mapBadges :
         Descending(mapBadges[n]) /\ PermutationOf(mapBadges[n], targets)

\* C8 witness: the route is drawn for a loaded array that is not in
\* descending score order, after clicks built a route in yet another order.
C8_Witness ==
    /\ mapLines # <<>>
    /\ mapBadges # <<>>
    /\ Len(targets) = 3
    /\ ~Descending(targets)
    /\ Len(routeTargets) >= 2
    /\ ~Descending(routeTargets)

\* C9: the street sheet lists the route list when it is non-empty and the
\* target collection in loaded order otherwise, and the sheet of an empty
\* route can be printed.
C9_PrintFallsBackToAllTargets ==
    /\ Len(StreetSheet) =
         Len(IF routeTargets # <<>> THEN routeTargets ELSE targets)
    /\ \A i \in DOMAIN StreetSheet :
         LET src == IF routeTargets # <<>> THEN routeTargets ELSE targets
         IN StreetSheet[i].id = src[i].id /\ StreetSheet[i].score = src[i].score
    /\ (loadPc = "done" /\ targets # <<>> /\ routeTargets = <<>>)
         => PrintEnabled

\* C10: a route line is on the map exactly when route-visibility is on and
\* the target collection has at least two entries; with fewer targets there
\* is never a line or a badge.
C10_LineIffShownAndTwoTargets ==
    /\ (mapLines # <<>>) <=> (showRoute /\ Len(targets) >= 2)
    /\ Len(targets) < 2 => (mapLines = <<>> /\ mapBadges = <<>>)

\* C10 witness: route-visibility is on with one target loaded and that
\* target in the route list, and nothing is drawn.
C10_Witness ==
    /\ showRoute
    /\ Len(targets) = 1
    /\ routeTargets # <<>>
    /\ mapLines = <<>>

\* C11: recording an outcome adds 1 to doors, 1 to deals exactly for a deal,
\* 1 to callbacks exactly for a callback, and leaves the route list alone;
\* no step of any operation lowers a counter.
C11_RecordOutcomeCounts ==
    [][/\ last'.op = "logResult" =>
            /\ stats'.doors = stats.doors + 1
            /\ stats'.deals =
                 stats.deals + (IF last'.arg = "deal" THEN 1 ELSE 0)
            /\ stats'.callbacks =
                 stats.callbacks + (IF last'.arg = "callback" THEN 1 ELSE 0)
            /\ routeTargets' = routeTargets
       /\ stats'.doors >= stats.doors
       /\ stats'.deals >= stats.deals
       /\ stats'.callbacks >= stats.callbacks]_vars

\* C11 witness: an outcome other than a deal or a callback has been
\* recorded while the route list held stops.
C11_Witness ==
    /\ last.op = "logResult"
    /\ last.arg = "nh"
    /\ stats = [doors |-> 1, deals |-> 0, callbacks |-> 0]
    /\ routeTargets # <<>>

\* C12: the map holds one zone layer when zone-visibility is on and the
\* zone collection is non-empty, and no zone layer otherwise; the layer
\* reference is set exactly when the layer is on the map.
C12_ZoneLayerIffShownAndLoaded ==
    /\ mapZoneLayers = (IF showLMI /\ Len(zones) > 0 THEN 1 ELSE 0)
    /\ zoneLayerRef <=> (showLMI /\ Len(zones) > 0)

\* C12 witness: zone-visibility has been switched back on over loaded
\* zones, so that the layer was built, removed and built again.
C12_Witness ==
    /\ last.op = "setShowLMI"
    /\ showLMI
    /\ Len(zones) > 0
    /\ loadPc = "done"

\* C14: a visibility flag changes only in a step of its own toggle (the
\* route flag also in clearRoute and Start Route); the toggles and Start
\* Route leave the route list and the tally alone; a marker click toggles
\* the route once and leaves the three flags and the tally alone.
C14_FlagsAreIndependent ==
    [][/\ showLMI' # showLMI => last'.op = "setShowLMI"
       /\ showTargets' # showTargets => last'.op = "setShowTargets"
       /\ showRoute' # showRoute =>
            last'.op \in {"setShowRoute", "clearRoute", "startRoute"}
       /\ last'.op \in {"setShowLMI", "setShowTargets", "setShowRoute",
                        "startRoute"} =>
            (routeTargets' = routeTargets /\ stats' = stats)
       /\ last'.op = "click" =>
            /\ routeTargets' = toggleRouteMembership(routeTargets, last'.target)
            /\ routeTargets' # routeTargets
            /\ showLMI' = showLMI
            /\ showTargets' = showTargets
            /\ showRoute' = showRoute
            /\ stats' = stats]_vars

\* C14 witness: a marker has been clicked while the zone layer was off and
\* the route layer was on.
C14_Witness ==
    /\ last.op = "click"
    /\ ~showLMI
    /\ showTargets
    /\ showRoute
    /\ routeTargets # <<>>

\* C15: the route list is never longer than the loaded target collection
\* and each of its entries is a target of that collection.
C15_RouteWithinTargets ==
    /\ Len(routeTargets) <= Len(targets)
    /\ \A i \in DOMAIN routeTargets :
         \E j \in DOMAIN targets : targets[j] = routeTargets[i]

\* C15 witness: every loaded target is in the route list.
C15_Witness ==
    /\ Len(targets) = 3
    /\ Len(routeTargets) = Len(targets)

\* C13: a location request that fails, by an error callback or because the
\* browser has no geolocation, shows one notice and changes nothing else:
\* the view, the location markers and the stored user location stay as they
\* were and no new request is issued.
C13_LocateFailureOnlyNotifies ==
    [][last'.op \in {"locateError", "locateUnsupported"} =>
         /\ alerts' = alerts + 1
         /\ view' = view
         /\ locMarkers' = locMarkers
         /\ userLocation' = userLocation
         /\ geoPending' <= geoPending]_vars

\* C16: the route after marker clicks is the route before them with
\* toggleRouteMembership applied once per click, in click order, also for
\* two clicks handled between two renders.
C16_NoClickLost ==
    [][/\ last'.op = "click" =>
            routeTargets' = toggleRouteMembership(routeTargets, last'.target)
       /\ last'.op = "clickPair" =>
            routeTargets' =
              toggleRouteMembership(
                toggleRouteMembership(routeTargets, last'.first),
                last'.target)]_vars

====
